---- MODULE Spec2Model ----
(***************************************************************************)
(* Model of the movie service (movieService) and of the vector search      *)
(* adapter (vectorSearchService) of the repository.                        *)
(*                                                                         *)
(*   - movieService: getMovieById, getMoviesByIds, searchMoviesByEmbedding,*)
(*     updateMovie (with its background re-embedding), deleteMovie;        *)
(*   - vectorSearchService: the backend discriminators, stringToNumericId, *)
(*     upsertMovieEmbeddings and semanticSearch over the three backends.   *)
(*                                                                         *)
(* Five specifications share the variables:                                *)
(*   SpecRead   the read path of movieService (bulk lookup, search join);  *)
(*   SpecCrud   get / update / delete and the background re-embedding;     *)
(*   SpecVector upsert and search of the vector adapter;                   *)
(*   SpecHash   one upsert on the integer-key backend, over many digests;  *)
(*   SpecRegen  updateMovie calls and the embeddings their tasks write.    *)
(***************************************************************************)
EXTENDS Integers, Sequences, FiniteSets, TLC

VARIABLES
    req,        \* the request a one-call specification serves (SpecRead, SpecHash)
    movies,     \* the document store: ObjectId -> document, or NoDoc
    cret,       \* the last completed movieService call and what it returned
    calls,      \* the updateMovie calls: position, captured values, result
    tasks,      \* the background re-embedding tasks started by updateMovie
    logs,       \* number of logger.error lines written by background tasks
    client,     \* the vector client handle (its shape)
    digest,     \* sha256: composite key -> first 8 digest bytes
    collection, \* the vector collection: exists?, its points
    latest,     \* history: composite key -> vector of its latest successful upsert
    vret        \* the last completed vectorSearchService call

vars == <<req, movies, cret, calls, tasks, logs, client, digest, collection,
          latest, vret>>

crudVars == <<movies, cret, calls, tasks, logs>>

vectorVars == <<client, digest, collection, latest, vret>>

-----------------------------------------------------------------------------
(* Bounds of the model *)

MaxMatches == 3    \* longest list of raw matches / identifiers drawn
MaxLimit == 2      \* result limits are drawn from 1..MaxLimit
MaxCalls == 1      \* updateMovie calls made in one behaviour

Range(s) == {s[i] : i \in DOMAIN s}

Min(a, b) == IF a <= b THEN a ELSE b

SeqsUpTo(S, n) == UNION {[1..k -> S] : k \in 0..n}

-----------------------------------------------------------------------------
(* Identifiers.  A string handed to the service is either a 24-digit hex   *)
(* string (in lower case, or with upper-case digits) or not an ObjectId at *)
(* all.  Types.ObjectId.isValid accepts hex digits of either case; casting *)
(* keeps the 12 bytes only; printing an ObjectId gives lower-case hex.     *)

Oids == {1, 2}

HexStr(o, lower) == [valid |-> TRUE, oid |-> o, lower |-> lower]

BadStr == [valid |-> FALSE, oid |-> 0, lower |-> TRUE]

IdStrings == {HexStr(1, TRUE), HexStr(1, FALSE), HexStr(2, TRUE), BadStr}

\* Types.ObjectId.isValid(id)
IsValid(s) == s.valid

\* the cast mongoose applies to a string used as _id
CastObjectId(s) == s.oid

\* movie.id, String(movie._id), _id.toString()
ToHexString(o) == HexStr(o, TRUE)

\* a payload field that is absent
Undefined == [valid |-> FALSE, oid |-> 0, lower |-> FALSE]

\* String(x): "undefined" for an absent field, the string itself otherwise
Str(x) == IF x = Undefined THEN BadStr ELSE x

-----------------------------------------------------------------------------
(* The document store *)

NoDoc == [present |-> FALSE]

Titles == {"t1", "t2"}

Plots == {"p1", "p2"}

Doc(t, p) == [present |-> TRUE, title |-> t, plot |-> p]

Docs == {Doc(t, p) : t \in Titles, p \in Plots}

\* the MovieDocument the model hands back for a stored record
Movie(o, db) == [_id |-> o, title |-> db[o].title, plot |-> db[o].plot]

\* MovieModel.findById(id): the document, or null
Null == [null |-> TRUE]

FindById(s, db) ==
    IF db[CastObjectId(s)].present THEN Movie(CastObjectId(s), db) ELSE Null

\* MovieModel.find({ _id: { $in: objectIds } })
FindIn(objectIds, db) ==
    {Movie(o, db) : o \in {CastObjectId(s) : s \in Range(objectIds)} \cap
                          {p \in Oids : db[p].present}}

-----------------------------------------------------------------------------
(* movieService.getMoviesByIds *)

MapSeq(s, f) == [i \in DOMAIN s |-> f[s[i]]]

\* new Map(movies.map((movie) => [movie.id, movie]))
MovieMapById(found) ==
    [k \in {ToHexString(m._id) : m \in found} |->
        CHOOSE m \in found : ToHexString(m._id) = k]

GetMoviesByIds(ids, db) ==
    LET objectIds == SelectSeq(ids, IsValid)
        movieMap == MovieMapById(FindIn(objectIds, db))
        Hit(s) == s \in DOMAIN movieMap
    IN  IF Len(objectIds) = 0 THEN <<>>
        ELSE MapSeq(SelectSeq(ids, Hit), movieMap)

-----------------------------------------------------------------------------
(* movieService.searchMoviesByEmbedding *)

EmptyStr == [valid |-> FALSE, oid |-> 0 - 1, lower |-> TRUE]

\* filter(Boolean) on strings: only the empty string is dropped
Truthy(s) == s # EmptyStr

\* semanticSearch(embedding, limit * 2)
RequestedMatches(limit) == limit * 2

\* movieMap.set(movieId, movie); movieMap.set(String(movie._id), movie)
MovieMapBoth(found) ==
    [k \in {ToHexString(m._id) : m \in Range(found)} |->
        CHOOSE m \in Range(found) : ToHexString(m._id) = k]

KeepLowerScore(match, existing) == match.score < existing.score

\* match.score > existing.score
KeepHigherScore(match, existing) == match.score > existing.score

\* movieScoreMap.set(movieId, {movie, score}): a Map keeps the position of a
\* key it already holds
SetEntry(acc, key, movie, score) ==
    IF \E i \in DOMAIN acc : acc[i].key = key
    THEN [i \in DOMAIN acc |->
            IF acc[i].key = key
            THEN [key |-> key, movie |-> movie, score |-> score]
            ELSE acc[i]]
    ELSE Append(acc, [key |-> key, movie |-> movie, score |-> score])

\* matches.forEach((match) => { ... }) from match number i on
RECURSIVE MergeMatches(_, _, _, _)
MergeMatches(matches, i, movieMap, acc) ==
    IF i > Len(matches) THEN acc
    ELSE LET match == matches[i]
             movieId == Str(match.payload.movieId)
         IN  IF movieId \notin DOMAIN movieMap
             THEN MergeMatches(matches, i + 1, movieMap, acc)
             ELSE LET at == {j \in DOMAIN acc : acc[j].key = movieId}
                      fresh == at = {}
                      replace == fresh \/
                                 KeepHigherScore(match, acc[CHOOSE j \in at : TRUE])
                  IN  MergeMatches(matches, i + 1, movieMap,
                          IF replace
                          THEN SetEntry(acc, movieId, movieMap[movieId], match.score)
                          ELSE acc)

AscendingScore(a, b) == a.score - b.score

\* the comparator (a, b) => b.score - a.score
DescendingScore(a, b) == b.score - a.score

\* Array.prototype.sort is stable: an entry goes after every entry the
\* comparator does not put behind it
RECURSIVE InsertSorted(_, _)
InsertSorted(sorted, e) ==
    IF sorted = <<>> THEN <<e>>
    ELSE IF DescendingScore(sorted[1], e) <= 0
         THEN <<sorted[1]>> \o InsertSorted(Tail(sorted), e)
         ELSE <<e>> \o sorted

RECURSIVE SortEntries(_)
SortEntries(s) ==
    IF s = <<>> THEN <<>>
    ELSE InsertSorted(SortEntries(SubSeq(s, 1, Len(s) - 1)), s[Len(s)])

\* slice(0, limit)
Slice(s, limit) == SubSeq(s, 1, Min(limit, Len(s)))

SearchMoviesByEmbedding(matches, limit, db) ==
    LET ids == SelectSeq([i \in DOMAIN matches |-> Str(matches[i].payload.movieId)],
                         Truthy)
        found == GetMoviesByIds(ids, db)
        merged == MergeMatches(matches, 1, MovieMapBoth(found), <<>>)
        values == [i \in DOMAIN merged |->
                     [movie |-> merged[i].movie, score |-> merged[i].score]]
    IN  IF Len(matches) = 0 THEN <<>>
        ELSE IF Len(ids) = 0 THEN <<>>
        ELSE Slice(SortEntries(values), limit)

-----------------------------------------------------------------------------------------------------------------------------------------------------
(* The read path: specification SpecRead.  The two functions read the      *)
(* store and write nothing: the initial state draws the store and the      *)
(* request, and the action serves it.                                      *)

Scores == {0, 1, 2}

PayloadIds == (IdStrings \ {BadStr}) \cup {Undefined}

RawMatches == {[id |-> "p", score |-> sc, payload |-> [movieId |-> m]] :
                   sc \in Scores, m \in PayloadIds}

NoCall == [op |-> "none"]

SearchRequests ==
    {[op |-> "searchMoviesByEmbedding", limit |-> limit, matches |-> matches] :
        limit \in 1..MaxLimit, matches \in SeqsUpTo(RawMatches, MaxMatches)}

GetManyRequests ==
    {[op |-> "getMoviesByIds", ids |-> ids] :
        ids \in SeqsUpTo(IdStrings, MaxMatches)}

IdleCrud ==
    /\ calls = <<>>
    /\ tasks = <<>>
    /\ logs = 0

IdleVector ==
    /\ client = [instQdrant |-> FALSE, instPinecone |-> FALSE,
                 search |-> FALSE, index |-> FALSE, baseUrl |-> FALSE]
    /\ digest = <<>>
    /\ collection = [exists |-> FALSE, points |-> {}, duplicates |-> "ignore"]
    /\ latest = <<>>
    /\ vret = NoCall

InitRead ==
    /\ req \in SearchRequests \cup GetManyRequests
    /\ movies \in [Oids -> {NoDoc, Doc("t1", "p1")}]
    /\ cret = NoCall
    /\ IdleCrud
    /\ IdleVector

\* one call of searchMoviesByEmbedding; semanticSearch answers req.matches
SearchMovies ==
    /\ req.op = "searchMoviesByEmbedding"
    /\ cret = NoCall
    /\ cret' = [op |-> req.op,
                requested |-> RequestedMatches(req.limit),
                kind |-> "ok",
                result |-> SearchMoviesByEmbedding(req.matches, req.limit, movies)]
    /\ UNCHANGED <<req, movies, calls, tasks, logs>>
    /\ UNCHANGED vectorVars

\* one call of getMoviesByIds
GetMany ==
    /\ req.op = "getMoviesByIds"
    /\ cret = NoCall
    /\ cret' = [op |-> req.op,
                kind |-> "ok",
                result |-> GetMoviesByIds(req.ids, movies)]
    /\ UNCHANGED <<req, movies, calls, tasks, logs>>
    /\ UNCHANGED vectorVars

NextRead == SearchMovies \/ GetMany

SpecRead == InitRead /\ [][NextRead]_vars

-----------------------------------------------------------------------------
(* Unsigned integers beyond 32 bits: five 16-bit limbs, most significant    *)
(* first (80 bits: a 64-bit value, and what Number() can round it up to).  *)

Limb == 256 * 256

BigZero == <<0, 0, 0, 0, 0>>

Limbs == Len(BigZero)

IsBig(a) == /\ DOMAIN a = 1..Limbs
            /\ \A i \in 1..Limbs : a[i] \in 0..(Limb - 1)

RECURSIVE BigLessFrom(_, _, _)
BigLessFrom(a, b, i) ==
    IF i > Limbs THEN FALSE
    ELSE IF a[i] # b[i] THEN a[i] < b[i]
    ELSE BigLessFrom(a, b, i + 1)

BigLess(a, b) == BigLessFrom(a, b, 1)

\* a + b + carry from limb i down to limb 1 (a carry out of limb 1 is lost)
RECURSIVE BigAddFrom(_, _, _, _)
BigAddFrom(a, b, i, carry) ==
    IF i = 0 THEN a
    ELSE LET sum == a[i] + b[i] + carry
         IN  BigAddFrom([a EXCEPT ![i] = sum % Limb], b, i - 1, sum \div Limb)

BigAdd(a, b) == BigAddFrom(a, b, Limbs, 0)

\* a - b for a >= b
RECURSIVE BigSubFrom(_, _, _, _)
BigSubFrom(a, b, i, borrow) ==
    IF i = 0 THEN a
    ELSE LET diff == a[i] - b[i] - borrow
         IN  IF diff < 0
             THEN BigSubFrom([a EXCEPT ![i] = diff + Limb], b, i - 1, 1)
             ELSE BigSubFrom([a EXCEPT ![i] = diff], b, i - 1, 0)

BigSub(a, b) == BigSubFrom(a, b, Limbs, 0)

RECURSIVE Pow2(_)
Pow2(n) == IF n = 0 THEN 1 ELSE 2 * Pow2(n - 1)

BitCount == 16 * Limbs

\* bit number i of a, bit 1 the most significant
BitAt(a, i) == (a[((i - 1) \div 16) + 1] \div Pow2(15 - ((i - 1) % 16))) % 2

\* the number with exactly bit number i set
BigBit(i) ==
    LET limb(j) == IF j = ((i - 1) \div 16) + 1
                   THEN Pow2(15 - ((i - 1) % 16)) ELSE 0
    IN  <<limb(1), limb(2), limb(3), limb(4), limb(5)>>

\* a * d + c for small d and c
RECURSIVE BigMulSmallFrom(_, _, _, _)
BigMulSmallFrom(a, d, i, carry) ==
    IF i = 0 THEN a
    ELSE LET cur == a[i] * d + carry
         IN  BigMulSmallFrom([a EXCEPT ![i] = cur % Limb], d, i - 1, cur \div Limb)

BigMulSmallAdd(a, d, c) == BigMulSmallFrom(a, d, Limbs, c)

\* the leading non-zero limb of a (Limbs for zero)
RECURSIVE LeadFrom(_, _)
LeadFrom(a, i) == IF i >= Limbs \/ a[i] # 0 THEN i ELSE LeadFrom(a, i + 1)

\* r - m as often as it fits
RECURSIVE Reduce(_, _)
Reduce(r, m) == IF BigLess(r, m) THEN r ELSE Reduce(BigSub(r, m), m)

\* BigInt a % BigInt m for m > 0 and a quotient below one limb (a < m * 2^16):
\* the quotient is estimated from below by dividing the limbs of a down to
\* m's leading limb by that limb plus one; what is left is then reduced
BigMod(a, m) ==
    LET lead == LeadFrom(m, 1)
        head == IF lead = 1 THEN a[1] ELSE a[lead - 1] * Limb + a[lead]
        estimate == head \div (m[lead] + 1)
    IN  Reduce(BigSub(a, BigMulSmallAdd(m, estimate, 0)), m)

\* a divided by a small number d: quotient and remainder
RECURSIVE BigDivSmallFrom(_, _, _, _)
BigDivSmallFrom(a, d, i, rem) ==
    IF i > Limbs THEN [quot |-> a, rem |-> rem]
    ELSE LET cur == rem * Limb + a[i]
         IN  BigDivSmallFrom([a EXCEPT ![i] = cur \div d], d, i + 1, cur % d)

BigDivSmall(a, d) == BigDivSmallFrom(a, d, 1, 0)

-----------------------------------------------------------------------------
(* vectorSearchService.stringToNumericId *)

\* Number.MAX_SAFE_INTEGER = 2^53 - 1
MaxSafeInteger == <<0, 31, Limb - 1, Limb - 1, Limb - 1>>

\* hash.readBigUInt64BE(0): the first 8 digest bytes, big-endian
ReadBigUInt64BE(bytes) ==
    <<0, bytes[1] * 256 + bytes[2], bytes[3] * 256 + bytes[4],
         bytes[5] * 256 + bytes[6], bytes[7] * 256 + bytes[8]>>

\* the position of the most significant set bit of a, BitCount + 1 for zero
RECURSIVE TopBitFrom(_, _)
TopBitFrom(a, i) ==
    IF i > BitCount THEN i
    ELSE IF BitAt(a, i) = 1 THEN i
    ELSE TopBitFrom(a, i + 1)

\* a with the bits after bit number k cleared
ClearAfter(a, k) ==
    LET limb(j) == IF 16 * j <= k THEN a[j]
                   ELSE IF 16 * (j - 1) >= k THEN 0
                   ELSE a[j] - (a[j] % Pow2(16 * j - k))
    IN  <<limb(1), limb(2), limb(3), limb(4), limb(5)>>

\* Number(bigint): exact up to 53 significant bits, beyond that rounded to
\* the nearest double, ties to the even significand
ToNumber(a) ==
    LET top == TopBitFrom(a, 16 * (LeadFrom(a, 1) - 1) + 1)
        last == top + 52
        kept == ClearAfter(a, last)
        rest == BigSub(a, kept)
        half == BigBit(last + 1)
        up == \/ BigLess(half, rest)
              \/ (rest = half /\ BitAt(a, last) = 1)
    IN  IF last >= BitCount THEN a
        ELSE IF up THEN BigAdd(kept, BigBit(last)) ELSE kept

\* the id without the reduction to the safe-integer range
StringToNumericIdUnreduced(bytes) == ToNumber(ReadBigUInt64BE(bytes))

\* stringToNumericId, from the digest of the string
StringToNumericId(bytes) ==
    ToNumber(BigMod(ReadBigUInt64BE(bytes), MaxSafeInteger))

\* String(n) of a non-negative integer below 10^21: its decimal digits
RECURSIVE DecimalDigits(_)
DecimalDigits(a) ==
    LET step == BigDivSmall(a, 10)
    IN  IF step.quot = BigZero THEN <<step.rem>>
        ELSE Append(DecimalDigits(step.quot), step.rem)

-----------------------------------------------------------------------------
(* vectorSearchService: the client handle and the three backends *)

\* the shape of the value getVectorClient() returns
ClientShape(instQ, instP, search, index, baseUrl) ==
    [instQdrant |-> instQ, instPinecone |-> instP,
     search |-> search, index |-> index, baseUrl |-> baseUrl]

QdrantClient == ClientShape(TRUE, FALSE, TRUE, FALSE, FALSE)

PineconeClient == ClientShape(FALSE, TRUE, FALSE, TRUE, FALSE)

ChromaClient == ClientShape(FALSE, FALSE, FALSE, FALSE, TRUE)

\* an object with an index accessor and a baseUrl: taken for Pinecone
MixedClient == ClientShape(FALSE, FALSE, FALSE, TRUE, TRUE)

UnknownClient == ClientShape(FALSE, FALSE, FALSE, FALSE, FALSE)

Clients == {QdrantClient, PineconeClient, ChromaClient, MixedClient, UnknownClient}

IsQdrant(c) == c.instQdrant \/ c.search

IsPinecone(c) == c.instPinecone \/ c.index

IsChroma(c) == c.baseUrl

Supported(c) == IsQdrant(c) \/ IsPinecone(c) \/ IsChroma(c)

MovieIds == {"m1", "m2"}

Names == {"title", "plot"}

Vectors == {1, 2}

\* EmbeddingRecord: named vectors, possibly none
EmbeddingRecords == UNION {[S -> Vectors] : S \in SUBSET Names}

\* `${movieId}:${source}`
CompositeKey(movieId, source) == movieId \o ":" \o source

Keys == {CompositeKey(m, n) : m \in MovieIds, n \in Names}

Abs(x) == IF x < 0 THEN 0 - x ELSE x

\* the distance a backend measures between two vectors
Distance(q, v) == Abs(q - v)

\* the similarity the two scoring backends report
Similarity(q, v) == 1 - Distance(q, v)

\* a write that stores nothing
Discard(points, new) == points

\* a keyed write: a point replaces the stored point of the same id
Overwrite(points, new) ==
    {p \in points : \A n \in new : n.id # p.id} \cup new

\* client.upsert(collection, { wait: true, points }): fails on a missing
\* collection or a backend fault
QdrantUpsert(coll, points, fault) ==
    IF fault \/ ~coll.exists
    THEN [failed |-> TRUE, coll |-> coll]
    ELSE [failed |-> FALSE,
          coll |-> [coll EXCEPT !.points = Overwrite(@, points)]]

\* index.upsert(vectors)
PineconeUpsert(coll, vectors, fault) ==
    IF fault
    THEN [failed |-> TRUE, coll |-> coll]
    ELSE [failed |-> FALSE,
          coll |-> [coll EXCEPT !.points = Overwrite(@, vectors)]]

\* POST .../collections/<collection>/add: the add endpoint stores the ids
\* the collection does not hold yet.  A record whose id is already stored is
\* left as it is (duplicates "ignore"), or the whole request is refused with
\* a duplicate-id error (duplicates "reject"), depending on the server's version;
\* in neither case is the stored vector replaced.
ChromaAdd(coll, vectors, fault) ==
    LET dup == {v \in vectors : \E p \in coll.points : p.id = v.id}
    IN  IF fault \/ (dup # {} /\ coll.duplicates = "reject")
        THEN [failed |-> TRUE, coll |-> coll]
        ELSE [failed |-> FALSE,
              coll |-> [coll EXCEPT !.points = @ \cup (vectors \ dup)]]

NoRequest == [to |-> "none"]

Thrown(message, coll, request) ==
    [kind |-> "error", error |-> message, ids |-> <<>>,
     request |-> request, coll |-> coll]

UpsertDone(w, ids, request) ==
    IF w.failed
    THEN Thrown("backend error", w.coll, request)
    ELSE [kind |-> "ok", error |-> "", ids |-> ids,
          request |-> request, coll |-> w.coll]

\* points.reduce((acc, point) => { acc[source] = String(point.id) ... })
ReturnedNumericIds(points) ==
    LET named == {[source |-> p.payload.source, id |-> DecimalDigits(p.id)] :
                     p \in points}
    IN  [src \in {n.source : n \in named} |->
            (CHOOSE n \in named : n.source = src).id]

\* vectors.reduce((acc, vec) => { acc[vec.metadata.source] = vec.id ... })
ReturnedStringIds(vectors) ==
    [src \in {v.payload.source : v \in vectors} |->
        (CHOOSE v \in vectors : v.payload.source = src).id]

\* a guard that lets every mapping through
AnyEmbeddings(embeddings) == FALSE

\* !Object.keys(embeddings).length
NoEmbeddings(embeddings) == DOMAIN embeddings = {}

\* upsertMovieEmbeddings(movieId, embeddings) with the client cl, the digest
\* function dg and the collection coll; fault is the backend's
UpsertMovieEmbeddings(movieId, embeddings, cl, dg, coll, fault) ==
    IF NoEmbeddings(embeddings)
    THEN Thrown("No embeddings provided for upsert", coll, NoRequest)
    ELSE IF IsQdrant(cl)
    THEN LET points ==
                 {[id |-> StringToNumericId(dg[CompositeKey(movieId, source)]),
                   vector |-> embeddings[source],
                   payload |-> [movieId |-> movieId, source |-> source,
                                originalId |-> CompositeKey(movieId, source)]] :
                     source \in DOMAIN embeddings}
         IN  UpsertDone(QdrantUpsert(coll, points, fault),
                        ReturnedNumericIds(points),
                        [to |-> "qdrant.upsert", points |-> points])
    ELSE LET vectors ==
                 {[id |-> CompositeKey(movieId, source),
                   vector |-> embeddings[source],
                   payload |-> [movieId |-> movieId, source |-> source]] :
                     source \in DOMAIN embeddings}
         IN  IF IsPinecone(cl)
             THEN UpsertDone(PineconeUpsert(coll, vectors, fault),
                             ReturnedStringIds(vectors),
                             [to |-> "pinecone.upsert", points |-> vectors])
             ELSE IF IsChroma(cl)
             THEN UpsertDone(ChromaAdd(coll, vectors, fault),
                             ReturnedStringIds(vectors),
                             [to |-> "chroma.add", points |-> vectors])
             ELSE Thrown("Unsupported vector database provider", coll, NoRequest)

\* what a backend may answer to a query for the `limit` nearest points: that
\* many stored points (all of them if there are fewer), nearest first, equally
\* near points in any order
Nearest(points, q, limit) ==
    LET n == Min(limit, Cardinality(points))
    IN  {s \in [1..n -> points] :
            /\ \A i, j \in 1..n : i < j =>
                   /\ s[i] # s[j]
                   /\ Distance(q, s[i].vector) <= Distance(q, s[j].vector)
            /\ \A p \in points \ Range(s) : \A i \in 1..n :
                   Distance(q, s[i].vector) <= Distance(q, p.vector)}

Found(matches) == [kind |-> "ok", error |-> "", matches |-> matches]

SearchThrown(message) == [kind |-> "error", error |-> message, matches |-> <<>>]

\* semanticSearch on the integer-key backend with the whole of it inside
\* try / catch
QdrantSearch(q, coll, fault, answer) ==
    IF ~coll.exists THEN Found(<<>>)
    ELSE IF Cardinality(coll.points) = 0 THEN Found(<<>>)
    ELSE IF fault THEN Found(<<>>)
    ELSE Found([i \in DOMAIN answer |->
                   [id |-> DecimalDigits(answer[i].id),
                    score |-> Similarity(q, answer[i].vector),
                    payload |-> answer[i].payload]])

\* index.query({ vector, topK, includeMetadata }) is not inside a try
PineconeSearch(q, coll, fault, answer) ==
    IF fault THEN SearchThrown("backend error")
    ELSE Found([i \in DOMAIN answer |->
                   [id |-> answer[i].id,
                    score |-> Similarity(q, answer[i].vector),
                    payload |-> answer[i].payload]])

\* axios.post(.../query) is not inside a try; score = 1 - distance
ChromaSearch(q, coll, fault, answer) ==
    IF fault THEN SearchThrown("backend error")
    ELSE Found([i \in DOMAIN answer |->
                   [id |-> answer[i].id,
                    score |-> 1 - Distance(q, answer[i].vector),
                    payload |-> answer[i].payload]])

\* semanticSearch(embedding, limit); answer is the backend's answer
SemanticSearch(q, cl, coll, fault, answer) ==
    IF IsQdrant(cl) THEN QdrantSearch(q, coll, fault, answer)
    ELSE IF IsPinecone(cl) THEN PineconeSearch(q, coll, fault, answer)
    ELSE IF IsChroma(cl) THEN ChromaSearch(q, coll, fault, answer)
    ELSE SearchThrown("Unsupported vector database provider")

-----------------------------------------------------------------------------
(* Claims on the read path *)

MaxOf(S) == CHOOSE x \in S : \A y \in S : y <= x

\* the persisted movie a raw match resolves to is the one whose identifier
\* is the match's payload movieId
ResolvesTo(match, o) ==
    /\ movies[o].present
    /\ Str(match.payload.movieId) = ToHexString(o)

MatchScores(o) == {m.score : m \in {x \in Range(req.matches) : ResolvesTo(x, o)}}

Matched == {o \in Oids : MatchScores(o) # {}}

SearchServed == cret.op = "searchMoviesByEmbedding"

\* C1: the result of searchMoviesByEmbedding holds at most one entry per
\* movie, and the score of a movie's entry is the maximum score among the raw
\* matches whose payload movieId resolves to that movie.
C1_OneEntryWithBestScore ==
    SearchServed =>
        LET res == cret.result
        IN  /\ \A i, j \in DOMAIN res :
                   res[i].movie._id = res[j].movie._id => i = j
            /\ \A i \in DOMAIN res :
                   /\ res[i].movie._id \in Matched
                   /\ res[i].movie = Movie(res[i].movie._id, movies)
                   /\ res[i].score = MaxOf(MatchScores(res[i].movie._id))

\* C1 witness: three raw matches of one movie with scores 1, 0, 2 (the
\* spec's 0.9, 0.7, 0.95) give exactly one entry, with score 2.
C1_Witness ==
    /\ SearchServed
    /\ Len(req.matches) = 3
    /\ \A i \in 1..3 : ResolvesTo(req.matches[i], 1)
    /\ <<req.matches[1].score, req.matches[2].score, req.matches[3].score>>
           = <<1, 0, 2>>
    /\ Len(cret.result) = 1
    /\ cret.result[1].score = 2

\* C2: searchMoviesByEmbedding(embedding, N) requests 2N raw matches, returns
\* at most N entries in non-increasing score order, these being the N
\* highest-scoring entries of the deduplicated set; matches that resolve to
\* no persisted movie are dropped and no error is raised.
C2_TopNByScore ==
    SearchServed =>
        LET res == cret.result
            returned == {res[i].movie._id : i \in DOMAIN res}
        IN  /\ cret.requested = 2 * req.limit
            /\ cret.kind = "ok"
            /\ Len(res) = Min(req.limit, Cardinality(Matched))
            /\ returned \subseteq Matched
            /\ \A i, j \in DOMAIN res : i < j => res[i].score >= res[j].score
            /\ \A o \in Matched \ returned : \A i \in DOMAIN res :
                   MaxOf(MatchScores(o)) <= res[i].score

\* C2 witness: two movies matched, a third raw match resolves to no movie,
\* N = 1: the lower-scoring movie and the unresolved match are left out.
C2_Witness ==
    /\ SearchServed
    /\ req.limit = 1
    /\ Cardinality(Matched) = 2
    /\ \E m \in Range(req.matches) : \A o \in Oids : ~ResolvesTo(m, o)
    /\ MaxOf(MatchScores(1)) < MaxOf(MatchScores(2))
    /\ Len(cret.result) = 1
    /\ cret.result[1].movie._id = 2

\* the records getMoviesByIds is specified to return: the input list without
\* the identifiers that are invalid or have no stored record, in input order
Stored(s) == IsValid(s) /\ movies[CastObjectId(s)].present

ExpectedMovies(ids) ==
    LET kept == SelectSeq(ids, Stored)
    IN  [i \in DOMAIN kept |-> Movie(CastObjectId(kept[i]), movies)]

\* C8: getMoviesByIds returns the input sequence with exactly the identifiers
\* that are invalid or have no stored record removed, each remaining
\* identifier replaced by its movie.
C8_InputOrderAllStored ==
    cret.op = "getMoviesByIds" => cret.result = ExpectedMovies(req.ids)

-----------------------------------------------------------------------------
(* movieService: getMovieById, deleteMovie, updateMovie *)

Fields == {"title", "plot"}

\* Partial<CreateMovieDTO>: the fields an update sets
UpdatePayloads == {[title |-> "t1"], [title |-> "t2"], [plot |-> "p2"]}

GetMovieById(id, db) ==
    IF ~IsValid(id)
    THEN [kind |-> "ok", result |-> Null, queried |-> FALSE]
    ELSE [kind |-> "ok", result |-> FindById(id, db), queried |-> TRUE]

\* a delete that hands the string to the store unchecked: the cast fails
DeleteMovieUnchecked(id, db) ==
    IF ~IsValid(id)
    THEN [kind |-> "error", result |-> FALSE, queried |-> TRUE, db |-> db]
    ELSE [kind |-> "ok", result |-> db[CastObjectId(id)].present,
          queried |-> TRUE, db |-> [db EXCEPT ![CastObjectId(id)] = NoDoc]]

\* MovieModel.findByIdAndDelete(id); result !== null
DeleteMovie(id, db) ==
    IF ~IsValid(id)
    THEN [kind |-> "ok", result |-> FALSE, queried |-> FALSE, db |-> db]
    ELSE [kind |-> "ok", result |-> db[CastObjectId(id)].present,
          queried |-> TRUE, db |-> [db EXCEPT ![CastObjectId(id)] = NoDoc]]

\* { $set: payload }
SetFields(doc, payload) ==
    [f \in DOMAIN doc |-> IF f \in DOMAIN payload THEN payload[f] ELSE doc[f]]

\* MovieModel.findByIdAndUpdate(id, { $set: payload }, { new: true })
FindByIdAndUpdate(id, payload, db) ==
    LET o == CastObjectId(id)
        after == [db EXCEPT ![o] = SetFields(db[o], payload)]
    IN  IF db[o].present
        THEN [db |-> after, updatedMovie |-> Movie(o, after)]
        ELSE [db |-> db, updatedMovie |-> Null]

\* { title, plot, genres, metadata, ...payload }
EmbeddingPayload(updatedMovie, payload) ==
    [f \in Fields |-> IF f \in DOMAIN payload THEN payload[f] ELSE updatedMovie[f]]

\* the first part of updateMovie, up to the await of the dynamic import
UpdateMovieBegin(id, payload, db) ==
    IF ~IsValid(id)
    THEN [db |-> db,
          call |-> [id |-> id, payload |-> payload, pc |-> "returned",
                    queried |-> FALSE, updatedMovie |-> Null,
                    kind |-> "ok", ret |-> Null, task |-> 0]]
    ELSE LET r == FindByIdAndUpdate(id, payload, db)
         IN  [db |-> r.db,
              call |-> [id |-> id, payload |-> payload,
                        pc |-> IF r.updatedMovie = Null THEN "returned" ELSE "import",
                        queried |-> TRUE, updatedMovie |-> r.updatedMovie,
                        kind |-> "ok", ret |-> Null, task |-> 0]]

\* a rejection of the background promise that reaches the caller
PropagateRejection(call) == [call EXCEPT !.kind = "error", !.ret = Null]

\* .catch((error) => { logger.error(...) }): the rejection ends in the log
CatchRejection(call) == call

-----------------------------------------------------------------------------
(* get / update / delete and the background re-embedding: SpecCrud *)

InitCrud ==
    /\ req = NoCall
    /\ movies \in [Oids -> {NoDoc, Doc("t1", "p1")}]
    /\ cret = NoCall
    /\ IdleCrud
    /\ IdleVector

GetOne ==
    \E id \in IdStrings :
        /\ cret' = [op |-> "getMovieById", id |-> id] @@ GetMovieById(id, movies)
        /\ UNCHANGED <<req, movies, calls, tasks, logs>>
        /\ UNCHANGED vectorVars

Delete ==
    \E id \in IdStrings :
        LET r == DeleteMovie(id, movies)
        IN  /\ cret' = [op |-> "deleteMovie", id |-> id, kind |-> r.kind,
                        result |-> r.result, queried |-> r.queried]
            /\ movies' = r.db
            /\ UNCHANGED <<req, calls, tasks, logs>>
            /\ UNCHANGED vectorVars

\* updateMovie is called: validation and findByIdAndUpdate
UpdateBegin ==
    /\ Len(calls) < MaxCalls
    /\ \E id \in IdStrings, payload \in UpdatePayloads :
        LET r == UpdateMovieBegin(id, payload, movies)
        IN  /\ movies' = r.db
            /\ calls' = Append(calls, r.call)
    /\ UNCHANGED <<req, cret, tasks, logs>>
    /\ UNCHANGED vectorVars

\* updateMovie resumes after the import: it starts regenerateMovieEmbeddings
\* without awaiting it and returns the updated record
UpdateReturn ==
    \E c \in DOMAIN calls :
        /\ calls[c].pc = "import"
        /\ tasks' = Append(tasks,
               [call |-> c, id |-> calls[c].id, status |-> "pending",
                payload |-> EmbeddingPayload(calls[c].updatedMovie, calls[c].payload)])
        /\ calls' = [calls EXCEPT ![c] =
               [@ EXCEPT !.pc = "returned", !.ret = calls[c].updatedMovie,
                         !.task = Len(tasks) + 1]]
        /\ UNCHANGED <<req, movies, cret, logs>>
        /\ UNCHANGED vectorVars

\* the background re-embedding of a task completes
RegenDone ==
    \E t \in DOMAIN tasks :
        /\ tasks[t].status = "pending"
        /\ tasks' = [tasks EXCEPT ![t].status = "done"]
        /\ UNCHANGED <<req, movies, cret, calls, logs>>
        /\ UNCHANGED vectorVars

\* the background re-embedding of a task rejects
RegenFail ==
    \E t \in DOMAIN tasks :
        /\ tasks[t].status = "pending"
        /\ tasks' = [tasks EXCEPT ![t].status = "failed"]
        /\ calls' = [calls EXCEPT ![tasks[t].call] = CatchRejection(@)]
        /\ logs' = logs + 1
        /\ UNCHANGED <<req, movies, cret>>
        /\ UNCHANGED vectorVars

NextCrud ==
    \/ GetOne
    \/ Delete
    \/ UpdateBegin
    \/ UpdateReturn
    \/ RegenDone
    \/ RegenFail

SpecCrud == InitCrud /\ [][NextCrud]_vars

-----------------------------------------------------------------------------
(* Claims on get / update / delete *)

InvalidCallReturns ==
    /\ (cret.op = "getMovieById" /\ ~IsValid(cret.id)) =>
           (cret.kind = "ok" /\ cret.result = Null /\ ~cret.queried)
    /\ (cret.op = "deleteMovie" /\ ~IsValid(cret.id)) =>
           (cret.kind = "ok" /\ cret.result = FALSE /\ ~cret.queried)
    /\ \A c \in DOMAIN calls : ~IsValid(calls[c].id) =>
           /\ calls[c].pc = "returned"
           /\ calls[c].kind = "ok"
           /\ calls[c].ret = Null
           /\ ~calls[c].queried
           /\ \A t \in DOMAIN tasks : tasks[t].call # c

\* the step is a get, delete or update call with an invalid identifier
InvalidCallStep ==
    \/ /\ cret' # cret
       /\ cret'.op \in {"getMovieById", "deleteMovie"}
       /\ ~IsValid(cret'.id)
    \/ /\ Len(calls') = Len(calls) + 1
       /\ ~IsValid(calls'[Len(calls')].id)

\* C7: with an identifier that is not in the valid format getMovieById
\* returns null, updateMovie returns null and deleteMovie returns false, none
\* raises an error, no query or write reaches the document store (it is left
\* unchanged) and no re-embedding is started.
C7_InvalidIdIsNotFound ==
    /\ []InvalidCallReturns
    /\ [][InvalidCallStep => (movies' = movies /\ tasks' = tasks)]_vars

\* C7 witness: all three calls were made with an invalid identifier while a
\* record is stored.
C7_Witness ==
    /\ cret.op = "deleteMovie"
    /\ ~IsValid(cret.id)
    /\ cret.result = FALSE
    /\ \E c \in DOMAIN calls : ~IsValid(calls[c].id) /\ calls[c].ret = Null
    /\ \E o \in Oids : movies[o].present

Returned(c) == calls[c].pc = "returned"

ReembeddingOnlyAfterUpdate ==
    /\ \A t \in DOMAIN tasks :
           /\ calls[tasks[t].call].updatedMovie # Null
           /\ calls[tasks[t].call].task = t
    /\ \A c \in DOMAIN calls :
           (Returned(c) /\ calls[c].updatedMovie = Null) => calls[c].task = 0
    /\ \A c \in DOMAIN calls :
           Returned(c) => (calls[c].kind = "ok" /\ calls[c].ret = calls[c].updatedMovie)
    /\ logs = Cardinality({t \in DOMAIN tasks : tasks[t].status = "failed"})

\* C9: updateMovie starts the re-embedding only when the update found and
\* modified a stored record; what it returned is the updated record whatever
\* the state of the re-embedding, and a later failure of the re-embedding
\* neither changes the returned value nor raises an error: it is only logged.
C9_FireAndForget ==
    /\ []ReembeddingOnlyAfterUpdate
    /\ [][\A c \in DOMAIN calls : Returned(c) => calls'[c] = calls[c]]_vars

\* C9 witness: updateMovie has returned the updated record while the
\* re-embedding it started is still pending.
C9_Witness ==
    \E c \in DOMAIN calls :
        /\ Returned(c)
        /\ calls[c].ret # Null
        /\ calls[c].task # 0
        /\ tasks[calls[c].task].status = "pending"

-----------------------------------------------------------------------------
(* The vector adapter: specification SpecVector *)

\* first 8 digest bytes sha256 may give: SHA-256 itself is not computed, the
\* digest function is drawn when the behaviour starts and never changes
DigestA ==
    [k \in Keys |->
        CASE k = "m1:title" -> <<18, 52, 86, 120, 154, 188, 222, 240>>
          [] k = "m1:plot" -> <<255, 255, 255, 255, 255, 255, 255, 255>>
          [] k = "m2:title" -> <<0, 31, 255, 255, 255, 255, 255, 254>>
          [] OTHER -> <<0, 32, 0, 0, 0, 0, 0, 0>>]

\* no two of the modelled keys share a numeric id
CollisionFree(dg) ==
    \A k1, k2 \in DOMAIN dg :
        StringToNumericId(dg[k1]) = StringToNumericId(dg[k2]) => k1 = k2

\* how the server's add endpoint treats an id it already holds
Duplicates(cl) ==
    IF ~IsQdrant(cl) /\ ~IsPinecone(cl) /\ IsChroma(cl)
    THEN {"ignore", "reject"} ELSE {"ignore"}

NoMovies ==
    /\ req = NoCall
    /\ movies = [o \in Oids |-> NoDoc]
    /\ cret = NoCall
    /\ IdleCrud

InitVector ==
    /\ NoMovies
    /\ client \in Clients
    /\ digest = DigestA
    /\ CollisionFree(digest)
    /\ collection \in {[exists |-> e, points |-> {}, duplicates |-> d] :
                          e \in IF IsQdrant(client) THEN BOOLEAN ELSE {TRUE},
                          d \in Duplicates(client)}
    /\ latest = <<>>
    /\ vret = NoCall

\* backend faults drawn for a write
UpsertFaults == BOOLEAN

\* the vectors of a successful upsert become the latest of their keys
Record(hist, movieId, embeddings) ==
    LET new == {CompositeKey(movieId, n) : n \in DOMAIN embeddings}
    IN  [k \in DOMAIN hist \cup new |->
            IF k \in new
            THEN embeddings[CHOOSE n \in DOMAIN embeddings :
                                CompositeKey(movieId, n) = k]
            ELSE hist[k]]

\* one call of upsertMovieEmbeddings
Upsert ==
    \E movieId \in MovieIds, embeddings \in EmbeddingRecords,
       fault \in UpsertFaults :
        \E r \in {UpsertMovieEmbeddings(movieId, embeddings, client, digest,
                                       collection, fault)} :
            /\ vret' = [op |-> "upsertMovieEmbeddings", movieId |-> movieId,
                        embeddings |-> embeddings, fault |-> fault,
                        kind |-> r.kind, error |-> r.error, ids |-> r.ids,
                        request |-> r.request]
            /\ collection' = r.coll
            /\ latest' = IF r.kind = "ok"
                         THEN Record(latest, movieId, embeddings) ELSE latest
            /\ UNCHANGED <<client, digest>>
            /\ UNCHANGED crudVars
            /\ UNCHANGED req

\* one call of semanticSearch
Search ==
    \E q \in Vectors, limit \in 1..MaxLimit, fault \in BOOLEAN :
        \E answer \in Nearest(collection.points, q, limit) :
            \E r \in {SemanticSearch(q, client, collection, fault, answer)} :
                /\ vret' = [op |-> "semanticSearch", query |-> q,
                            limit |-> limit, fault |-> fault, kind |-> r.kind,
                            error |-> r.error, matches |-> r.matches]
                /\ UNCHANGED <<client, digest, collection, latest>>
                /\ UNCHANGED crudVars
                /\ UNCHANGED req

NextVector == Upsert \/ Search

SpecVector == InitVector /\ [][NextVector]_vars

-----------------------------------------------------------------------------
(* Claims on the vector adapter *)

Upserted == vret.op = "upsertMovieEmbeddings"

Searched == vret.op = "semanticSearch"

\* C3: semanticSearch raises an error only when the client matches none of
\* the three backend shapes; with a client of a supported shape a backend
\* query error, a missing collection and an empty collection all give an
\* empty list, never an error.
C3_ErrorOnlyIfUnsupported ==
    Searched =>
        /\ vret.kind = "error" => ~Supported(client)
        /\ (Supported(client) /\ vret.fault) =>
               (vret.kind = "ok" /\ vret.matches = <<>>)
        /\ (IsQdrant(client)
               /\ (~collection.exists \/ collection.points = {})) =>
               (vret.kind = "ok" /\ vret.matches = <<>>)

\* a semanticSearch step that directly follows a successful upsert, asks for
\* one of the vectors just upserted and meets no backend fault
SearchAfterUpsert ==
    /\ Upserted
    /\ vret.kind = "ok"
    /\ vret'.op = "semanticSearch"
    /\ vret'.query \in Range(vret.embeddings)
    /\ ~vret'.fault

PointsOf(movieId) == {p \in collection.points : p.payload.movieId = movieId}

\* the stored points of other entities that are at least as near to q as
\* every stored point of the entity
Rivals(movieId, q) ==
    {o \in collection.points \ PointsOf(movieId) :
        \A p \in PointsOf(movieId) :
            Distance(q, o.vector) <= Distance(q, p.vector)}

KeyOf(p) == CompositeKey(p.payload.movieId, p.payload.source)

\* exactly one stored point per composite key ever upserted, holding the
\* vector of the latest upsert of that key
OnePointPerKeyLatestVector ==
    /\ \A p \in collection.points :
           /\ KeyOf(p) \in DOMAIN latest
           /\ p.vector = latest[KeyOf(p)]
           /\ \A o \in collection.points : KeyOf(o) = KeyOf(p) => o = p
    /\ \A k \in DOMAIN latest : \E p \in collection.points : KeyOf(p) = k

\* an upsert step that repeats the successful upsert before it
RepeatedUpsert ==
    /\ Upserted
    /\ vret.kind = "ok"
    /\ vret'.op = "upsertMovieEmbeddings"
    /\ vret'.movieId = vret.movieId
    /\ vret'.embeddings = vret.embeddings
    /\ ~vret'.fault

\* C5: upsert is idempotent by identifier on every backend: the store holds
\* exactly one point per composite key ever upserted, with the vector of the
\* key's latest upsert, and repeating an upsert leaves the stored points
\* unchanged and returns the same name-to-identifier mapping.
C5_IdempotentByIdentifier ==
    /\ []OnePointPerKeyLatestVector
    /\ [][RepeatedUpsert =>
            /\ collection'.points = collection.points
            /\ vret'.kind = "ok"
            /\ vret'.ids = vret.ids]_vars

EmptyInputError == "No embeddings provided for upsert"

UnsupportedError == "Unsupported vector database provider"

\* the result of an upsert call, by the mapping and the client it was given
UpsertOutcome ==
    Upserted =>
        /\ DOMAIN vret.embeddings = {} =>
               /\ vret.kind = "error"
               /\ vret.error = EmptyInputError
               /\ vret.request = NoRequest
        /\ (DOMAIN vret.embeddings # {} /\ ~Supported(client)) =>
               /\ vret.kind = "error"
               /\ vret.error = UnsupportedError
               /\ vret.request = NoRequest
        /\ vret.kind = "ok" => DOMAIN vret.ids = DOMAIN vret.embeddings

\* an upsert step that ends in one of the two input errors
RejectedUpsert ==
    /\ vret'.op = "upsertMovieEmbeddings"
    /\ vret'.kind = "error"
    /\ vret'.error \in {EmptyInputError, UnsupportedError}

\* C6: upsertMovieEmbeddings fails with the empty-input error whenever the
\* mapping is empty, whatever the client, and with the unsupported-provider
\* error when the mapping is non-empty and the client has none of the three
\* shapes; in both cases no write is issued to a backend and the store is
\* as it was.  On success the returned mapping has exactly the names of the
\* input mapping as keys.
C6_UpsertInputErrors ==
    /\ []UpsertOutcome
    /\ [][RejectedUpsert =>
            (vret'.request = NoRequest /\ collection' = collection)]_vars

\* C6 witness: an empty mapping handed to a supported client that already
\* stores points has been refused with the empty-input error.
C6_Witness ==
    /\ Upserted
    /\ DOMAIN vret.embeddings = {}
    /\ IsChroma(client)
    /\ collection.points # {}
    /\ vret.error = EmptyInputError

-----------------------------------------------------------------------------
(* The numeric identifiers of the integer-key backend: specification        *)
(* SpecHash, one upsert of one movie over a wide range of digests           *)

\* first 8 digest bytes, from all zero to all ones, around 2^53 - 1
DigestSamples ==
    {<<a, b, c, c, c, c, c, d>> :
        a \in {0, 255}, b \in {0, 31, 32, 255}, c \in {0, 255},
        d \in {0, 254, 255}}

UpsertRequests ==
    {[op |-> "upsertMovieEmbeddings", movieId |-> "m1", embeddings |-> e] :
        e \in UNION {[S -> {1}] : S \in (SUBSET Names) \ {{}}}}

InitHash ==
    /\ client = QdrantClient
    /\ digest \in [{CompositeKey("m1", n) : n \in Names} -> DigestSamples]
    /\ CollisionFree(digest)
    /\ req \in UpsertRequests
    /\ movies = [o \in Oids |-> NoDoc]
    /\ cret = NoCall
    /\ IdleCrud
    /\ collection = [exists |-> TRUE, points |-> {}, duplicates |-> "ignore"]
    /\ latest = <<>>
    /\ vret = NoCall

\* the requested call of upsertMovieEmbeddings
UpsertRequested ==
    /\ vret = NoCall
    /\ \E r \in {UpsertMovieEmbeddings(req.movieId, req.embeddings, client,
                                       digest, collection, FALSE)} :
           /\ vret' = [op |-> req.op, movieId |-> req.movieId,
                       embeddings |-> req.embeddings, fault |-> FALSE,
                       kind |-> r.kind, error |-> r.error, ids |-> r.ids,
                       request |-> r.request]
           /\ collection' = r.coll
           /\ latest' = IF r.kind = "ok"
                        THEN Record(latest, req.movieId, req.embeddings)
                        ELSE latest
    /\ UNCHANGED <<client, digest>>
    /\ UNCHANGED crudVars
    /\ UNCHANGED req

NextHash == UpsertRequested

SpecHash == InitHash /\ [][NextHash]_vars

\* x is a multiple of m plus id: the quotient of a 64-bit x by 2^53 - 1 is
\* the number above x's low 53 bits, or one more
IsRemainder(id, x, m) ==
    LET high == x[2] \div 32
    IN  \E q \in {high, high + 1} :
            /\ IsBig(BigMulSmallAdd(m, q, 0))
            /\ BigAdd(BigMulSmallAdd(m, q, 0), id) = x
            /\ ~BigLess(x, BigMulSmallAdd(m, q, 0))

\* the number the decimal digits ds denote, read from digit i on with acc
\* the number read so far
RECURSIVE ParseFrom(_, _, _)
ParseFrom(ds, i, acc) ==
    IF i > Len(ds) \/ ~IsBig(acc) THEN acc
    ELSE ParseFrom(ds, i + 1, BigMulSmallAdd(acc, 10, ds[i]))

ParseDecimal(ds) == ParseFrom(ds, 1, BigZero)

\* what String(n) prints for a non-negative integer: digits, no leading zero
IsDecimal(ds) ==
    /\ Len(ds) >= 1
    /\ \A i \in DOMAIN ds : ds[i] \in 0..9
    /\ Len(ds) > 1 => ds[1] # 0

\* C10: the numeric id of a composite key is an integer with
\* 0 <= id < Number.MAX_SAFE_INTEGER, the first 8 digest bytes as an unsigned
\* 64-bit value reduced modulo MAX_SAFE_INTEGER; the identifier upsert
\* returns for the integer-key backend is the decimal string of that id, and
\* the point's payload keeps the composite key.
C10_NumericIdInSafeRange ==
    (Upserted /\ IsQdrant(client) /\ vret.kind = "ok") =>
        \A p \in vret.request.points :
            /\ IsBig(p.id)
            /\ BigLess(p.id, MaxSafeInteger)
            /\ IsRemainder(p.id, ReadBigUInt64BE(digest[KeyOf(p)]),
                           MaxSafeInteger)
            /\ p.payload.originalId = KeyOf(p)
            /\ p.payload.movieId = vret.movieId
            /\ IsDecimal(vret.ids[p.payload.source])
            /\ ParseDecimal(vret.ids[p.payload.source]) = p.id

\* C10 witness: the key whose digest starts with eight bytes 255 (2^64 - 1,
\* far beyond the safe range) got the id 2047, returned as "2047".
C10_Witness ==
    /\ Upserted
    /\ vret.kind = "ok"
    /\ digest["m1:title"] = <<255, 255, 255, 255, 255, 255, 255, 255>>
    /\ "title" \in DOMAIN vret.ids
    /\ vret.ids["title"] = <<2, 0, 4, 7>>
    /\ \E p \in collection.points :
           p.payload.originalId = "m1:title" /\ p.id = <<0, 0, 0, 0, 2047>>

-----------------------------------------------------------------------------
(* updateMovie calls and the embeddings their background tasks write:       *)
(* specification SpecRegen                                                  *)

MaxUpdates == 2    \* updateMovie calls made in one behaviour

\* the identifiers as the store prints them
CanonicalIds == {ToHexString(o) : o \in Oids}

\* the embedding computed from a text
Embed(text) == [of |-> text]

\* the embeddings of the payload's fields, one point per composite key
RegeneratedPoints(id, payload) ==
    {[id |-> <<id, f>>, vector |-> Embed(payload[f]),
      payload |-> [movieId |-> id, source |-> f]] : f \in DOMAIN payload}

\* ingestionService.regenerateMovieEmbeddings(id, payload), when it
\* succeeds: the embeddings of the payload are upserted under the movie's keys
RegenerateMovieEmbeddings(id, payload, coll) ==
    [coll EXCEPT !.points = Overwrite(@, RegeneratedPoints(id, payload))]

InitRegen ==
    /\ req = NoCall
    /\ movies \in [Oids -> {NoDoc, Doc("t1", "p1")}]
    /\ cret = NoCall
    /\ IdleCrud
    /\ client = PineconeClient
    /\ digest = <<>>
    /\ collection = [exists |-> TRUE, points |-> {}, duplicates |-> "ignore"]
    /\ latest = <<>>
    /\ vret = NoCall

\* updateMovie is called: validation and findByIdAndUpdate
UpdateCalled ==
    /\ Len(calls) < MaxUpdates
    /\ \E id \in CanonicalIds, payload \in UpdatePayloads :
           \E r \in {UpdateMovieBegin(id, payload, movies)} :
               /\ movies' = r.db
               /\ calls' = Append(calls, r.call)
    /\ UNCHANGED <<req, cret, tasks, logs>>
    /\ UNCHANGED vectorVars

\* the background re-embedding of a task completes: its embeddings are stored
RegenWritten ==
    \E t \in DOMAIN tasks :
        /\ tasks[t].status = "pending"
        /\ tasks' = [tasks EXCEPT ![t].status = "done"]
        /\ collection' = RegenerateMovieEmbeddings(tasks[t].id, tasks[t].payload,
                                                   collection)
        /\ UNCHANGED <<req, movies, cret, calls, logs>>
        /\ UNCHANGED <<client, digest, latest, vret>>

NextRegen ==
    \/ UpdateCalled
    \/ UpdateReturn
    \/ RegenWritten
    \/ RegenFail

SpecRegen == InitRegen /\ [][NextRegen]_vars

\* the stored embeddings of a movie
EmbeddingsOf(id) == {p \in collection.points : p.payload.movieId = id}

\* C11: if two updateMovie calls on the same movie return in the order U1
\* then U2 (their tasks are started in that order), then once both
\* re-embedding tasks have completed, in any interleaving, the stored
\* embeddings of the movie are the ones computed from the payload U2 captured.
C11_LatestPayloadEmbedded ==
    \A t1, t2 \in DOMAIN tasks :
        (/\ t1 < t2
         /\ tasks[t1].id = tasks[t2].id
         /\ tasks[t1].status = "done"
         /\ tasks[t2].status = "done") =>
            EmbeddingsOf(tasks[t2].id) =
                RegeneratedPoints(tasks[t2].id, tasks[t2].payload)

====
